---- MODULE Spec2Model ----
(***************************************************************************)
(* ClaudeUsageMonitorService (src/services/claudeUsageMonitorService.js):  *)
(* the start/stop lifecycle, the self-rescheduling cycle                   *)
(* runAndScheduleNext, the Update Pass updateAllAccountsUsage with the     *)
(* dormant-window check and the window probe, and the interval planner     *)
(* calculateNextInterval.                                                  *)
(*                                                                         *)
(* One action is one run-to-completion job of the Node event loop: a       *)
(* lifecycle call, a timer callback, or the resumption of an async         *)
(* function at an await on an external call together with all the          *)
(* synchronous code that follows it up to the next such await.  An         *)
(* external call either returns or throws.  Times are milliseconds.        *)
(***************************************************************************)
EXTENDS Integers, Sequences, FiniteSets, TLC

\* ------------------------------------------------------------ constants
Minute == 60 * 1000
BASE_INTERVAL == 20 * 60 * 1000
AFTER_RESET_MINUTES == 5
RESET_THRESHOLD_MINUTES == 10
MIN_INTERVAL == 60000
\* The wait after each account's turn, and the probe's wait before it fetches
\* the usage again.
ACCOUNT_DELAY == 1000
SETTLE_DELAY == 2000

\* ------------------------------------------------------------ bounds
\* Longest account list an Update Pass is checked on (PassSpec).
MaxAccounts == 3
\* Longest account list the planner is checked on (PlanSpec).
PlanAccounts == 2
\* Longest account list under the scheduler loop (Spec, LiveSpec).
SchedAccounts == 1
\* Longest account list under stop() and restart during a pass (RestartSpec).
RestartAccounts == 2
\* Cycles in flight plus armed timers that start() may add to.
MaxThreads == 2

\* ------------------------------------------------------------ data
\* Date.now() / new Date(): the values the clock is read at.
T0 == 100 * Minute
Day == 24 * 60 * Minute
Clock == {T0, T0 + 4 * Minute}

\* A usage window: present or not; resets_at is the time its timestamp
\* parses to, 0 for a missing (falsy) one.
NoWindow == [present |-> FALSE, resets_at |-> 0]
Win(r) == [present |-> TRUE, resets_at |-> r]
Dormant == Win(0)

\* resets_at values: the trigger (resets_at + 5 min) is now, 30 s ahead,
\* 8 min ahead and exactly BASE_INTERVAL ahead when the clock reads T0.
ResetTimes == {T0 - 5 * Minute, T0 - 5 * Minute + 30000, T0 + 3 * Minute, T0 + 15 * Minute}

\* A usage snapshot; Null is the null one.
Usage(f, s) == [isNull |-> FALSE, five_hour |-> f, seven_day |-> s]
Null == [isNull |-> TRUE, five_hour |-> NoWindow, seven_day |-> NoWindow]

\* What fetchOAuthUsage may return when it returns data.
UsageData ==
    { Usage(Dormant, NoWindow),
      Usage(Win(T0 + 3 * Minute), NoWindow),
      Usage(NoWindow, Win(T0 - 5 * Minute + 30000)),
      Usage(Win(T0 + 15 * Minute), Win(T0 + 3 * Minute)) }

\* The statusCode of a probe response that is not 200.
StatusCodes == {429}

\* What the store may hold for an account.
FiveHourValues == {NoWindow, Dormant} \cup {Win(r) : r \in ResetTimes}
SevenDayValues ==
    {NoWindow, Win(T0 - 5 * Minute + 30000), Win(T0 + 15 * Minute), Win(T0 + 6 * Day)}
Snapshots == {Null} \cup {Usage(f, s) : f \in FiveHourValues, s \in SevenDayValues}

\* An account of the registry: isActive is (account.isActive === 'true'),
\* scopes the set account.scopes splits into; its id is its place in the list.
AccountKinds ==
    { [isActive |-> TRUE, scopes |-> {"user:profile", "user:inference"}],
      [isActive |-> TRUE, scopes |-> {"user:profile"}],
      [isActive |-> TRUE, scopes |-> {"user:inference"}],
      [isActive |-> TRUE, scopes |-> {}],
      [isActive |-> FALSE, scopes |-> {"user:profile", "user:inference"}] }

AccountIds == 1..MaxAccounts

\* The planner reads only isActive: one active and one inactive kind.
PlanKinds == {a \in AccountKinds : a.scopes = {"user:profile", "user:inference"}}

RegistriesOf(kinds, n) == UNION {[1..k -> kinds] : k \in 0..n}
Registries(n) == RegistriesOf(AccountKinds, n)

\* ------------------------------------------------------------ state
VARIABLES
    isRunning,       \* this.isRunning
    monitorTimeout,  \* this.monitorTimeout: 0 (null) or a timer handle
    timers,          \* the armed scheduling timers (pending setTimeout calls)
    cycles,          \* the executions of runAndScheduleNext, by slot
    registry,        \* what redis.getAllClaudeAccounts() returns
    store,           \* the persisted usage snapshot of each account
    lastOp           \* the last lifecycle call and whether it only warned

vars == <<isRunning, monitorTimeout, timers, cycles, registry, store, lastOp>>

CycleIds == 1..MaxThreads
TimerIds == 1..(MaxThreads + 1)

\* The record of one checkAndResetFiveHourWindow call: what it did.
\* Of its probe: token is what getValidAccessToken gave ("valid", "absent":
\* a falsy token, "threw"), proxied whether _getProxyAgent was called, status
\* the statusCode of the response (0: none), refetches the usage fetches
\* after the request, caught whether the probe's catch block ran.
NoCheck ==
    [called |-> FALSE, probes |-> 0, net |-> 0,
     writes |-> 0, logged |-> FALSE, returned |-> FALSE, ret |-> FALSE,
     probeRet |-> FALSE,
     token |-> "none", proxied |-> FALSE, status |-> 0, refetches |-> 0,
     caught |-> FALSE]

\* A free slot: no execution of runAndScheduleNext.
Idle ==
    [pc |-> "idle", stopSeen |-> FALSE, sleep |-> 0,
     i |-> 0, fetched |-> <<>>, usageData |-> Null, newUsage |-> Null,
     successCount |-> 0, skipCount |-> 0, initCount |-> 0, failureCount |-> 0,
     hist |-> <<>>, passLog |-> "none", cw |-> NoCheck,
     j |-> 0, now |-> 0, resetTimes |-> <<>>, planFailed |-> FALSE,
     threw |-> FALSE, nextInterval |-> 0]

Active == {c \in CycleIds : cycles[c].pc # "idle"}
Threads == Cardinality(Active) + Cardinality(timers)
FreeCycle == CHOOSE c \in CycleIds : cycles[c].pc = "idle" /\ \A d \in CycleIds : cycles[d].pc = "idle" => c <= d

Upd(c, cy) == cycles' = [cycles EXCEPT ![c] = cy]

\* ------------------------------------------------------------ the store
\* claudeAccountService.getClaudeUsageSnapshot / updateClaudeUsageSnapshot.
getClaudeUsageSnapshot(st, id) == st[id]
updateClaudeUsageSnapshot(st, id, usage) == [st EXCEPT ![id] = usage]

\* ------------------------------------------------------------ lifecycle
\* runAndScheduleNext() up to its first await: updateAllAccountsUsage() is
\* entered and redis.getAllClaudeAccounts() is called.
runAndScheduleNext == [Idle EXCEPT !.pc = "list"]

\* start() that defers the first cycle to a timer instead of running it.
StartDeferred ==
    /\ ~isRunning
    /\ Threads < MaxThreads
    /\ isRunning' = TRUE
    /\ timers' = timers \cup {[id |-> 1 + Cardinality(timers), delay |-> BASE_INTERVAL,
                                passLog |-> "none"]}
    /\ monitorTimeout' = 1 + Cardinality(timers)
    /\ lastOp' = "start"
    /\ UNCHANGED <<cycles, registry, store>>

\* start() on a stopped service.
Start ==
    /\ ~isRunning
    /\ Threads < MaxThreads
    /\ isRunning' = TRUE
    /\ Upd(FreeCycle, runAndScheduleNext)
    /\ lastOp' = "start"
    /\ UNCHANGED <<monitorTimeout, timers, registry, store>>

\* start() on a running service: the warning, and nothing else.
StartWhileRunning ==
    /\ isRunning
    /\ lastOp' = "startWarn"
    /\ UNCHANGED <<isRunning, monitorTimeout, timers, cycles, registry, store>>

\* clearTimeout(this.monitorTimeout) when the handle is not null.
clearTimeout(ts, handle) == {t \in ts : t.id # handle}

\* stop() on a running service.  stopSeen notes the cycles it finds in flight.
Stop ==
    /\ isRunning
    /\ timers' = IF monitorTimeout # 0 THEN clearTimeout(timers, monitorTimeout) ELSE timers
    /\ monitorTimeout' = 0
    /\ isRunning' = FALSE
    /\ cycles' = [c \in CycleIds |->
                    IF cycles[c].pc # "idle" THEN [cycles[c] EXCEPT !.stopSeen = TRUE]
                    ELSE cycles[c]]
    /\ lastOp' = "stop"
    /\ UNCHANGED <<registry, store>>

\* stop() on a stopped service: the warning, and nothing else.
StopWhileStopped ==
    /\ ~isRunning
    /\ lastOp' = "stopWarn"
    /\ UNCHANGED <<isRunning, monitorTimeout, timers, cycles, registry, store>>

\* An armed timer fires: its callback calls runAndScheduleNext().
TimerFires(t) ==
    /\ t \in timers
    /\ timers' = timers \ {t}
    /\ Upd(FreeCycle, runAndScheduleNext)
    /\ UNCHANGED <<isRunning, monitorTimeout, registry, store, lastOp>>

\* ------------------------------------------------------------ Update Pass
\* isOAuth taking either scope for enough.
isOAuthEither(account) ==
    "user:profile" \in account.scopes \/ "user:inference" \in account.scopes

isOAuth(account) ==
    "user:profile" \in account.scopes /\ "user:inference" \in account.scopes

\* The account passes both skip tests of the loop.
Eligible(account) == account.isActive /\ isOAuth(account)

\* The first account at or after place k that is not skipped (Len + 1: none).
RECURSIVE NextEligible(_, _)
NextEligible(accounts, k) ==
    IF k > Len(accounts) THEN k
    ELSE IF Eligible(accounts[k]) THEN k
    ELSE NextEligible(accounts, k + 1)

\* updateAllAccountsUsage returns (its summary or its error was logged), and
\* runAndScheduleNext goes on to call calculateNextInterval(), which calls
\* redis.getAllClaudeAccounts().
PassEnds(cy, logged) == [cy EXCEPT !.passLog = logged, !.pc = "planList"]

\* The for loop from place k: the skipped accounts are counted without any
\* await (continue), then the next account's usage is fetched, or the loop
\* ends.  fetched notes the accounts fetchOAuthUsage was called for.
LoopFrom(cy, accounts, k) ==
    LET n == NextEligible(accounts, k)
        cy1 == [cy EXCEPT !.skipCount = @ + (n - k),
                          !.hist = @ \o [x \in 1..(n - k) |->
                                            [account |-> k + x - 1, outcome |-> "skipped"]],
                          !.cw = NoCheck, !.usageData = Null, !.newUsage = Null,
                          !.i = n]
    IN  IF n <= Len(accounts)
        THEN [cy1 EXCEPT !.pc = "fetch", !.fetched = Append(@, n)]
        ELSE PassEnds(cy1, "completed")

\* hist notes, account by account in the order of their turns, how each
\* turn went: "skipped", "data" (the fetch returned data), "nodata", "throw"
\* (the fetch threw), "writefail" (updateClaudeUsageSnapshot threw).
Noted(cy, outcome) ==
    [cy EXCEPT !.hist =
        IF Len(@) > 0 /\ @[Len(@)].account = cy.i
        THEN [@ EXCEPT ![Len(@)].outcome = outcome]
        ELSE Append(@, [account |-> cy.i, outcome |-> outcome])]

\* The account's turn ends in the try block's success branch.
Succeeded(cy) ==
    [cy EXCEPT !.successCount = @ + 1, !.pc = "delay", !.sleep = ACCOUNT_DELAY]

\* Failed with the failure ending the whole pass.
FailedAbortsPass(cy, outcome) ==
    PassEnds([Noted(cy, outcome) EXCEPT !.failureCount = @ + 1], "completed")

\* The account's turn ends in the else branch or in the inner catch.
Failed(cy, outcome) ==
    [Noted(cy, outcome) EXCEPT !.failureCount = @ + 1, !.pc = "delay",
                               !.sleep = ACCOUNT_DELAY]

\* checkAndResetFiveHourWindow returns needsInit to the pass.
CheckReturns(cy, needsInit) ==
    Succeeded([cy EXCEPT !.cw.returned = TRUE, !.cw.ret = needsInit,
                         !.initCount = IF needsInit THEN @ + 1 ELSE @])

\* triggerFiveHourInitialization returns initSuccess to the check.
ProbeReturns(cy, initSuccess) ==
    CheckReturns([cy EXCEPT !.cw.probeRet = initSuccess], initSuccess)

\* triggerFiveHourInitialization up to its first await (getValidAccessToken).
triggerFiveHourInitialization(cy) ==
    [cy EXCEPT !.cw.probes = @ + 1, !.pc = "token"]

\* checkAndResetFiveHourWindow probing also a window about to reset.
checkAndResetNearReset(cy, fiveHourData, now) ==
    LET cy1 == [cy EXCEPT !.cw = [NoCheck EXCEPT !.called = TRUE]]
        remainingMinutes == (fiveHourData.resets_at - now) \div (1000 * 60)
    IN  IF fiveHourData.resets_at = 0 \/ remainingMinutes <= RESET_THRESHOLD_MINUTES
        THEN triggerFiveHourInitialization(cy1)
        ELSE CheckReturns(cy1, FALSE)

\* checkAndResetFiveHourWindow up to its first await or its return.
checkAndResetFiveHourWindow(cy, fiveHourData, now) ==
    LET cy1 == [cy EXCEPT !.cw = [NoCheck EXCEPT !.called = TRUE]]
    IN  IF fiveHourData.resets_at = 0
        THEN triggerFiveHourInitialization(cy1)
        ELSE LET remainingMinutes == (fiveHourData.resets_at - now) \div (1000 * 60)
             IN  CheckReturns(
                   [cy1 EXCEPT !.cw.logged = (remainingMinutes <= RESET_THRESHOLD_MINUTES)],
                   FALSE)

\* redis.getAllClaudeAccounts() returns the list.
ListReturns(c) ==
    /\ cycles[c].pc = "list"
    /\ Upd(c, LoopFrom(cycles[c], registry, 1))
    /\ UNCHANGED <<isRunning, monitorTimeout, timers, registry, store, lastOp>>

\* redis.getAllClaudeAccounts() throws: the outer catch logs it.
ListThrows(c) ==
    /\ cycles[c].pc = "list"
    /\ Upd(c, PassEnds(cycles[c], "error"))
    /\ UNCHANGED <<isRunning, monitorTimeout, timers, registry, store, lastOp>>

\* fetchOAuthUsage returns data: updateClaudeUsageSnapshot is called.
FetchReturns(c, usage) ==
    /\ cycles[c].pc = "fetch"
    /\ Upd(c, [Noted(cycles[c], "data") EXCEPT !.usageData = usage, !.pc = "put"])
    /\ UNCHANGED <<isRunning, monitorTimeout, timers, registry, store, lastOp>>

\* fetchOAuthUsage returns nothing.
FetchReturnsNothing(c) ==
    /\ cycles[c].pc = "fetch"
    /\ Upd(c, Failed(cycles[c], "nodata"))
    /\ UNCHANGED <<isRunning, monitorTimeout, timers, registry, store, lastOp>>

\* fetchOAuthUsage throws.
FetchThrows(c) ==
    /\ cycles[c].pc = "fetch"
    /\ Upd(c, Failed(cycles[c], "throw"))
    /\ UNCHANGED <<isRunning, monitorTimeout, timers, registry, store, lastOp>>

\* updateClaudeUsageSnapshot returns: the snapshot is stored, and the
\* five-hour window, when the data has one, is checked.
PutReturns(c, now) ==
    /\ cycles[c].pc = "put"
    /\ store' = updateClaudeUsageSnapshot(store, cycles[c].i, cycles[c].usageData)
    /\ Upd(c, IF cycles[c].usageData.five_hour.present
              THEN checkAndResetFiveHourWindow(cycles[c], cycles[c].usageData.five_hour, now)
              ELSE Succeeded(cycles[c]))
    /\ UNCHANGED <<isRunning, monitorTimeout, timers, registry, lastOp>>

\* updateClaudeUsageSnapshot throws: the inner catch.
PutThrows(c) ==
    /\ cycles[c].pc = "put"
    /\ Upd(c, Failed(cycles[c], "writefail"))
    /\ UNCHANGED <<isRunning, monitorTimeout, timers, registry, store, lastOp>>

\* The 1 second wait after the account ends: the loop goes on.
DelayEnds(c) ==
    /\ cycles[c].pc = "delay"
    /\ Upd(c, LoopFrom([cycles[c] EXCEPT !.sleep = 0], registry, cycles[c].i + 1))
    /\ UNCHANGED <<isRunning, monitorTimeout, timers, registry, store, lastOp>>

\* ------------------------------------------------------------ Window Prober
Rest == <<isRunning, monitorTimeout, timers, registry, store, lastOp>>

\* The probe's catch block: the error is logged and false is returned.
ProbeCatch(cy) == ProbeReturns([cy EXCEPT !.cw.caught = TRUE], FALSE)

\* getValidAccessToken returns a token: _getProxyAgent is called.
TokenReturns(c) ==
    /\ cycles[c].pc = "token"
    /\ Upd(c, [cycles[c] EXCEPT !.cw.token = "valid", !.cw.proxied = TRUE, !.pc = "proxy"])
    /\ UNCHANGED Rest

\* TokenReturnsNothing going on to _getProxyAgent with the missing token.
TokenReturnsNothingGoesOn(c) ==
    /\ cycles[c].pc = "token"
    /\ Upd(c, [cycles[c] EXCEPT !.cw.token = "absent", !.cw.proxied = TRUE, !.pc = "proxy"])
    /\ UNCHANGED Rest

\* getValidAccessToken returns no token (null, empty): return false.
TokenReturnsNothing(c) ==
    /\ cycles[c].pc = "token"
    /\ Upd(c, ProbeReturns([cycles[c] EXCEPT !.cw.token = "absent"], FALSE))
    /\ UNCHANGED Rest

\* getValidAccessToken throws.
TokenThrows(c) ==
    /\ cycles[c].pc = "token"
    /\ Upd(c, ProbeCatch([cycles[c] EXCEPT !.cw.token = "threw"]))
    /\ UNCHANGED Rest

\* _getProxyAgent returns: the probe request is sent.
ProxyReturns(c) ==
    /\ cycles[c].pc = "proxy"
    /\ Upd(c, [cycles[c] EXCEPT !.pc = "request", !.cw.net = @ + 1])
    /\ UNCHANGED Rest

\* _getProxyAgent throws.
ProxyThrows(c) ==
    /\ cycles[c].pc = "proxy"
    /\ Upd(c, ProbeCatch(cycles[c]))
    /\ UNCHANGED Rest

\* _makeClaudeRequest returns status 200 with a body JSON.parse accepts:
\* the 2 second wait begins.
RequestSucceeds(c) ==
    /\ cycles[c].pc = "request"
    /\ Upd(c, [cycles[c] EXCEPT !.cw.status = 200, !.pc = "settle", !.sleep = SETTLE_DELAY])
    /\ UNCHANGED Rest

\* _makeClaudeRequest returns status 200 with a body JSON.parse throws on.
RequestBodyRejected(c) ==
    /\ cycles[c].pc = "request"
    /\ Upd(c, ProbeCatch([cycles[c] EXCEPT !.cw.status = 200]))
    /\ UNCHANGED Rest

\* _makeClaudeRequest returns another status: it is logged, return false.
RequestReturnsError(c, statusCode) ==
    /\ cycles[c].pc = "request"
    /\ statusCode # 200
    /\ Upd(c, ProbeReturns([cycles[c] EXCEPT !.cw.status = statusCode], FALSE))
    /\ UNCHANGED Rest

\* _makeClaudeRequest throws.
RequestThrows(c) ==
    /\ cycles[c].pc = "request"
    /\ Upd(c, ProbeCatch(cycles[c]))
    /\ UNCHANGED Rest

\* The 2 second wait ends: the usage is fetched again.
SettleEnds(c) ==
    /\ cycles[c].pc = "settle"
    /\ Upd(c, [cycles[c] EXCEPT !.pc = "refetch", !.sleep = 0,
                                !.cw.net = @ + 1, !.cw.refetches = @ + 1])
    /\ UNCHANGED Rest

\* newUsage?.five_hour?.resets_at is truthy.
Populated(newUsage) ==
    ~newUsage.isNull /\ newUsage.five_hour.present /\ newUsage.five_hour.resets_at # 0

\* RefetchReturns persisting newUsage before it tests resets_at.
RefetchReturnsStoresFirst(c, newUsage) ==
    /\ cycles[c].pc = "refetch"
    /\ store' = IF newUsage.isNull THEN store
                ELSE updateClaudeUsageSnapshot(store, cycles[c].i, newUsage)
    /\ Upd(c, IF Populated(newUsage)
              THEN ProbeReturns([cycles[c] EXCEPT !.newUsage = newUsage, !.cw.writes = @ + 1], TRUE)
              ELSE ProbeReturns(cycles[c], FALSE))
    /\ UNCHANGED <<isRunning, monitorTimeout, timers, registry, lastOp>>

\* The second fetchOAuthUsage returns newUsage (Null: nothing).
RefetchReturns(c, newUsage) ==
    /\ cycles[c].pc = "refetch"
    /\ Upd(c, IF Populated(newUsage)
              THEN [cycles[c] EXCEPT !.newUsage = newUsage, !.pc = "put2"]
              ELSE ProbeReturns(cycles[c], FALSE))
    /\ UNCHANGED Rest

\* The second fetchOAuthUsage throws.
RefetchThrows(c) ==
    /\ cycles[c].pc = "refetch"
    /\ Upd(c, ProbeCatch(cycles[c]))
    /\ UNCHANGED Rest

\* Put2Throws with the failed write taken for a success.
Put2ThrowsIgnored(c) ==
    /\ cycles[c].pc = "put2"
    /\ Upd(c, ProbeReturns([cycles[c] EXCEPT !.cw.caught = TRUE], TRUE))
    /\ UNCHANGED Rest

\* The probe's updateClaudeUsageSnapshot returns: the reset time is logged
\* and the probe returns true.
Put2Returns(c) ==
    /\ cycles[c].pc = "put2"
    /\ store' = updateClaudeUsageSnapshot(store, cycles[c].i, cycles[c].newUsage)
    /\ Upd(c, ProbeReturns([cycles[c] EXCEPT !.cw.writes = @ + 1], TRUE))
    /\ UNCHANGED <<isRunning, monitorTimeout, timers, registry, lastOp>>

\* The probe's updateClaudeUsageSnapshot throws.
Put2Throws(c) ==
    /\ cycles[c].pc = "put2"
    /\ Upd(c, ProbeCatch(cycles[c]))
    /\ UNCHANGED Rest

\* ------------------------------------------------------------ Interval Planner
\* The first active account at or after place k (Len + 1: none).
RECURSIVE NextActive(_, _)
NextActive(accounts, k) ==
    IF k > Len(accounts) THEN k
    ELSE IF accounts[k].isActive THEN k
    ELSE NextActive(accounts, k + 1)

\* resetTimes.sort((a, b) => a.resetTime - b.resetTime): a stable sort.
RECURSIVE Insert(_, _)
Insert(s, e) ==
    IF s = <<>> THEN <<e>>
    ELSE IF e.resetTime < Head(s).resetTime THEN <<e>> \o s
    ELSE <<Head(s)>> \o Insert(Tail(s), e)

RECURSIVE SortByResetTime(_)
SortByResetTime(s) ==
    IF s = <<>> THEN <<>>
    ELSE Insert(SortByResetTime(SubSeq(s, 1, Len(s) - 1)), s[Len(s)])

Max(a, b) == IF a >= b THEN a ELSE b

\* calculateNextInterval returns interval to runAndScheduleNext.
PlanReturns(cy, interval) == [cy EXCEPT !.nextInterval = interval, !.pc = "arm"]

\* PlanCatch passing the error on to runAndScheduleNext.
PlanCatchRethrows(cy) == [cy EXCEPT !.planFailed = TRUE, !.threw = TRUE, !.pc = "arm"]

\* The catch of calculateNextInterval.
PlanCatch(cy) == PlanReturns([cy EXCEPT !.planFailed = TRUE], BASE_INTERVAL)

\* PlanFinish taking the first entry collected, without the sort.
PlanFinishUnsorted(cy) ==
    IF Len(cy.resetTimes) > 0
    THEN LET nearest == cy.resetTimes[1]
             interval == nearest.resetTime - cy.now
         IN  IF interval < BASE_INTERVAL
             THEN PlanReturns(cy, Max(interval, MIN_INTERVAL))
             ELSE PlanReturns(cy, BASE_INTERVAL)
    ELSE PlanReturns(cy, BASE_INTERVAL)

\* PlanFinish without the floor of one minute.
PlanFinishNoFloor(cy) ==
    IF Len(cy.resetTimes) > 0
    THEN LET sorted == SortByResetTime(cy.resetTimes)
             nearest == sorted[1]
             interval == nearest.resetTime - cy.now
         IN  IF interval < BASE_INTERVAL
             THEN PlanReturns(cy, interval)
             ELSE PlanReturns(cy, BASE_INTERVAL)
    ELSE PlanReturns(cy, BASE_INTERVAL)

\* After the loop: the nearest reset time decides.
PlanFinish(cy) ==
    IF Len(cy.resetTimes) > 0
    THEN LET sorted == SortByResetTime(cy.resetTimes)
             nearest == sorted[1]
             interval == nearest.resetTime - cy.now
         IN  IF interval < BASE_INTERVAL
             THEN PlanReturns(cy, Max(interval, MIN_INTERVAL))
             ELSE PlanReturns(cy, BASE_INTERVAL)
    ELSE PlanReturns(cy, BASE_INTERVAL)

\* What one window of a snapshot pushes on resetTimes.
WindowEntry(window, id, now, windowType) ==
    LET triggerTime == window.resets_at + AFTER_RESET_MINUTES * 60 * 1000
    IN  IF window.present /\ window.resets_at # 0 /\ triggerTime > now
        THEN <<[account |-> id, resetTime |-> triggerTime, windowType |-> windowType]>>
        ELSE <<>>

\* The planner's loop from place k: inactive accounts are passed without any
\* await, then the next account's snapshot is read, or the loop ends.
PlanLoopFrom(cy, accounts, k) ==
    LET n == NextActive(accounts, k)
    IN  IF n <= Len(accounts) THEN [cy EXCEPT !.j = n, !.pc = "planSnap"]
        ELSE PlanFinish([cy EXCEPT !.j = n])

\* The locals of the finished Update Pass are gone.
PassLocalsGone(cy) ==
    [cy EXCEPT !.i = 0, !.successCount = 0, !.skipCount = 0, !.initCount = 0,
               !.failureCount = 0, !.hist = <<>>, !.fetched = <<>>]

\* redis.getAllClaudeAccounts() returns to the planner, which reads the clock.
PlanListReturns(c, now) ==
    /\ cycles[c].pc = "planList"
    /\ Upd(c, PlanLoopFrom([PassLocalsGone(cycles[c]) EXCEPT !.now = now], registry, 1))
    /\ UNCHANGED Rest

\* redis.getAllClaudeAccounts() throws in the planner.
PlanListThrows(c) ==
    /\ cycles[c].pc = "planList"
    /\ Upd(c, PlanCatch(PassLocalsGone(cycles[c])))
    /\ UNCHANGED Rest

\* getClaudeUsageSnapshot returns: both windows are collected.
SnapshotReturns(c) ==
    /\ cycles[c].pc = "planSnap"
    /\ LET cy == cycles[c]
           usageSnapshot == getClaudeUsageSnapshot(store, cy.j)
           entries == IF usageSnapshot.isNull THEN <<>>
                      ELSE WindowEntry(usageSnapshot.five_hour, cy.j, cy.now, "5h")
                           \o WindowEntry(usageSnapshot.seven_day, cy.j, cy.now, "7d")
       IN  Upd(c, PlanLoopFrom([cy EXCEPT !.resetTimes = @ \o entries], registry, cy.j + 1))
    /\ UNCHANGED Rest

\* getClaudeUsageSnapshot throws.
SnapshotThrows(c) ==
    /\ cycles[c].pc = "planSnap"
    /\ Upd(c, PlanCatch(cycles[c]))
    /\ UNCHANGED Rest

\* ------------------------------------------------------------ re-arm
ArmedIds == {t.id : t \in timers}

\* The handle setTimeout returns: one no armed timer and no stored handle has.
NewHandle ==
    CHOOSE h \in TimerIds :
        /\ h \notin ArmedIds \cup {monitorTimeout}
        /\ \A g \in TimerIds : g \notin ArmedIds \cup {monitorTimeout} => h <= g

\* ArmDelay falling back to the base interval after a failed Update Pass.
ArmDelayBaseAfterError(cy) ==
    IF cy.threw \/ cy.passLog = "error" THEN BASE_INTERVAL ELSE cy.nextInterval

\* The delay runAndScheduleNext arms with: nextInterval, or BASE_INTERVAL in
\* its catch block.
ArmDelay(cy) == IF cy.threw THEN BASE_INTERVAL ELSE cy.nextInterval

\* The timer the cycle arms; passLog notes how the arming cycle's pass ended.
setTimeout(cy) ==
    [id |-> NewHandle, delay |-> ArmDelay(cy), passLog |-> cy.passLog]

\* Rearm with no timer armed for a cycle whose Update Pass failed.
RearmUnlessPassFailed(c) ==
    /\ cycles[c].pc = "arm"
    /\ IF isRunning /\ cycles[c].passLog # "error"
       THEN /\ timers' = timers \cup {setTimeout(cycles[c])}
            /\ monitorTimeout' = NewHandle
       ELSE UNCHANGED <<timers, monitorTimeout>>
    /\ Upd(c, Idle)
    /\ UNCHANGED <<isRunning, registry, store, lastOp>>

\* Rearm without the test of isRunning.
RearmUnchecked(c) ==
    /\ cycles[c].pc = "arm"
    /\ timers' = timers \cup {setTimeout(cycles[c])}
    /\ monitorTimeout' = NewHandle
    /\ Upd(c, Idle)
    /\ UNCHANGED <<isRunning, registry, store, lastOp>>

\* runAndScheduleNext after calculateNextInterval returned: if (this.isRunning)
\* the timer is armed; the execution ends.
Rearm(c) ==
    /\ cycles[c].pc = "arm"
    /\ IF isRunning
       THEN /\ timers' = timers \cup {setTimeout(cycles[c])}
            /\ monitorTimeout' = NewHandle
       ELSE UNCHANGED <<timers, monitorTimeout>>
    /\ Upd(c, Idle)
    /\ UNCHANGED <<isRunning, registry, store, lastOp>>

\* ------------------------------------------------------------ specifications
Stopped(n) ==
    /\ isRunning = FALSE
    /\ monitorTimeout = 0
    /\ timers = {}
    /\ cycles = [c \in CycleIds |-> Idle]
    /\ registry \in Registries(n)
    /\ store = [a \in AccountIds |-> Null]
    /\ lastOp = "none"

PassStep(c) ==
    \/ ListReturns(c)
    \/ ListThrows(c)
    \/ \E usage \in UsageData : FetchReturns(c, usage)
    \/ FetchReturnsNothing(c)
    \/ FetchThrows(c)
    \/ \E now \in Clock : PutReturns(c, now)
    \/ PutThrows(c)
    \/ DelayEnds(c)
    \/ TokenReturns(c)
    \/ TokenReturnsNothing(c)
    \/ TokenThrows(c)
    \/ ProxyReturns(c)
    \/ ProxyThrows(c)
    \/ RequestSucceeds(c)
    \/ RequestBodyRejected(c)
    \/ \E statusCode \in StatusCodes : RequestReturnsError(c, statusCode)
    \/ RequestThrows(c)
    \/ SettleEnds(c)
    \/ \E newUsage \in UsageData \cup {Null} : RefetchReturns(c, newUsage)
    \/ RefetchThrows(c)
    \/ Put2Returns(c)
    \/ Put2Throws(c)

PlanStep(c) ==
    \/ \E now \in Clock : PlanListReturns(c, now)
    \/ PlanListThrows(c)
    \/ SnapshotReturns(c)
    \/ SnapshotThrows(c)

CycleStep(c) == PassStep(c) \/ PlanStep(c) \/ Rearm(c)

\* The service: constructed, then any lifecycle calls, timers and cycles.
Init == Stopped(SchedAccounts)

Next ==
    \/ Start
    \/ Stop
    \/ \E t \in timers : TimerFires(t)
    \/ \E c \in CycleIds : CycleStep(c)

Spec == Init /\ [][Next]_vars

\* The same, with every external call returning and every timer firing.
LiveSpec ==
    /\ Spec
    /\ \A c \in CycleIds : WF_vars(CycleStep(c))
    /\ WF_vars(\E t \in timers : TimerFires(t))

\* The service once started and never stopped.
NextRunning ==
    \/ Start
    \/ \E t \in timers : TimerFires(t)
    \/ \E c \in CycleIds : CycleStep(c)

RunningSpec == Init /\ [][NextRunning]_vars

\* The same, with the lifecycle calls that only warn.
NextLifecycle == Next \/ StartWhileRunning \/ StopWhileStopped

LifecycleSpec == Init /\ [][NextLifecycle]_vars

\* One Update Pass, started by start(), over any account list.
InitPass == Stopped(MaxAccounts)

NextPass == Start \/ \E c \in CycleIds : PassStep(c)

PassSpec == InitPass /\ [][NextPass]_vars

\* The Update Passes of a service that is stopped and started again while a
\* pass is in progress.
InitRestart == Stopped(RestartAccounts)

NextRestart == Start \/ Stop \/ \E c \in CycleIds : PassStep(c)

RestartSpec == InitRestart /\ [][NextRestart]_vars

\* One run of the planner, in the first cycle of a started service whose
\* Update Pass could not list the accounts, over any account list and any
\* stored snapshots.
InitPlan ==
    /\ isRunning = TRUE
    /\ monitorTimeout = 0
    /\ timers = {}
    /\ cycles = [c \in CycleIds |->
                   IF c = 1 THEN PassEnds(runAndScheduleNext, "error") ELSE Idle]
    /\ registry \in RegistriesOf(PlanKinds, PlanAccounts)
    /\ store \in [AccountIds -> Snapshots]
    /\ \A a \in AccountIds : a > Len(registry) => store[a] = Null
    /\ lastOp = "start"

NextPlan == \E c \in CycleIds : PlanStep(c) \/ Rearm(c)

PlanSpec == InitPlan /\ [][NextPlan]_vars

\* ------------------------------------------------------------ claims
\* c's execution of runAndScheduleNext takes its re-arm step.
Rearms(c) == cycles[c].pc = "arm" /\ cycles'[c].pc = "idle"

\* C1: while isRunning is true at most one scheduling timer is armed, and
\* while isRunning is false none is.
C1_AtMostOneTimer ==
    /\ isRunning => Cardinality(timers) <= 1
    /\ ~isRunning => timers = {}

\* C2: a cycle that stop() found in progress arms no timer at its re-arm step.
C2_StoppedCycleArmsNothing ==
    [][\A c \in CycleIds : (Rearms(c) /\ cycles[c].stopSeen) => timers' = timers]_vars

\* C3: once stop() has been called on the stopped service (stop() twice in a
\* row), isRunning is false and no scheduling timer is armed.
C3_StopTwiceLeavesNoTimer ==
    lastOp = "stopWarn" => (~isRunning /\ timers = {})

\* An Update Pass has just begun: its account listing is awaited.
PassBegins == \E c \in CycleIds : cycles[c].pc = "list"

\* C4: if the service stays Running from some point on (no further stop()),
\* Update Passes begin infinitely often, whatever failures the cycles hit.
C4_LoopNeverStalls == (<>[]isRunning) => []<>PassBegins

\* A cycle begun by the timer that an earlier cycle armed (the handle is
\* stored and its timer is no longer armed) while the service is Running.
C4_Witness ==
    /\ isRunning
    /\ monitorTimeout # 0
    /\ timers = {}
    /\ PassBegins

\* The timers armed in this step.
NewTimers == timers' \ timers

\* C5 as claimed: a timer armed by a cycle whose Update Pass failed to list
\* the accounts has the delay BASE_INTERVAL.
C5_BaseIntervalAfterEnumerationFailure ==
    \A t \in timers : t.passLog = "error" => t.delay = BASE_INTERVAL

\* C5 as amended: a cycle whose Update Pass failed to list the accounts still
\* runs the planner, and at its re-arm step, if the service is Running, arms
\* exactly one timer, with the interval the planner returned, which is
\* BASE_INTERVAL when the planner failed too; if not Running it arms none.
C5_PlannedIntervalAfterEnumerationFailure ==
    [][\A c \in CycleIds :
         (Rearms(c) /\ cycles[c].passLog = "error") =>
            /\ ~cycles[c].threw
            /\ cycles[c].planFailed => cycles[c].nextInterval = BASE_INTERVAL
            /\ IF isRunning
               THEN \E t \in NewTimers :
                      /\ NewTimers = {t}
                      /\ t.delay = cycles[c].nextInterval
                      /\ monitorTimeout' = t.id
               ELSE timers' = timers]_vars

\* A timer armed after an enumeration failure with a planned interval
\* shorter than BASE_INTERVAL.
C5_Witness ==
    \E t \in timers : t.passLog = "error" /\ t.delay < BASE_INTERVAL

PassPcs ==
    {"list", "fetch", "put", "delay", "token", "proxy", "request", "settle",
     "refetch", "put2"}

\* The step is start() on a stopped service.
Starts == ~isRunning /\ isRunning'

\* C6 as claimed: when start() returns, the timer of the first cycle is armed.
C6_TimerArmedWhenStartReturns ==
    [][Starts => NewTimers # {}]_vars

\* C6 as amended: start() sets isRunning and begins the first Update Pass
\* itself (no timer is involved), and returns with that cycle in progress;
\* in every cycle the planner is called only once the Update Pass has ended,
\* and a timer is armed only at a cycle's re-arm step, after the planner
\* returned, with exactly the interval it returned, while Running.
C6_StartRunsFirstCycleInline ==
    [][/\ Starts =>
            /\ NewTimers = {} /\ timers' = timers /\ monitorTimeout' = monitorTimeout
            /\ \E c \in CycleIds :
                 /\ cycles[c].pc = "idle" /\ cycles'[c].pc = "list"
                 /\ \A d \in CycleIds \ {c} : cycles'[d] = cycles[d]
       /\ \A c \in CycleIds :
            (cycles[c].pc # "planList" /\ cycles'[c].pc = "planList") =>
               /\ cycles[c].pc \in PassPcs
               /\ cycles'[c].passLog \in {"completed", "error"}
       /\ \A c \in CycleIds :
            cycles'[c].pc \in {"planSnap", "arm"} =>
               cycles[c].pc \in {"planList", "planSnap", "arm"}
       /\ \A t \in NewTimers :
            /\ isRunning
            /\ NewTimers = {t}
            /\ \E c \in CycleIds : Rearms(c) /\ t.delay = cycles[c].nextInterval]_vars

\* start() has returned: the service is Running, its first cycle is still
\* awaiting the account list, and no timer is armed.
C6_Witness ==
    /\ isRunning
    /\ lastOp = "start"
    /\ timers = {}
    /\ monitorTimeout = 0
    /\ Cardinality(Active) = 1
    /\ PassBegins

\* The accounts of the registry whose turn had one of the outcomes.
Turns(cy, outcomes) == {k \in 1..Len(cy.hist) : cy.hist[k].outcome \in outcomes}

\* The pass of cy has ended with its summary: every account had its turn, in
\* list order, the skipped ones being those that are not eligible, and each
\* is counted once.
EveryAccountCounted(cy) ==
    /\ Len(cy.hist) = Len(registry)
    /\ \A k \in 1..Len(cy.hist) :
         /\ cy.hist[k].account = k
         /\ cy.hist[k].outcome = "skipped" <=> ~Eligible(registry[k])
    /\ cy.successCount + cy.skipCount + cy.failureCount = Len(registry)

PassCompleted(cy) == cy.pc = "planList" /\ cy.passLog = "completed"

\* C7 as claimed: at the end of an Update Pass every account was processed
\* in list order and counted once, and failed is the number of eligible
\* accounts whose fetch threw or returned no data.
C7_FailedCountsFetchFailures ==
    \A c \in CycleIds :
        PassCompleted(cycles[c]) =>
            /\ EveryAccountCounted(cycles[c])
            /\ cycles[c].failureCount = Cardinality(Turns(cycles[c], {"nodata", "throw"}))

\* C7 as amended: the same, with failed the number of eligible accounts whose
\* fetch threw or returned no data or whose snapshot write threw, success the
\* number of the others that were fetched, and skipped the number skipped.
C7_EveryAccountCountedOnce ==
    \A c \in CycleIds :
        PassCompleted(cycles[c]) =>
            /\ EveryAccountCounted(cycles[c])
            /\ cycles[c].failureCount =
                   Cardinality(Turns(cycles[c], {"nodata", "throw", "writefail"}))
            /\ cycles[c].successCount = Cardinality(Turns(cycles[c], {"data"}))
            /\ cycles[c].skipCount = Cardinality(Turns(cycles[c], {"skipped"}))

\* Three eligible accounts, the fetch of the second threw: success 2,
\* failed 1, skipped 0.
C7_Witness ==
    \E c \in CycleIds :
        /\ PassCompleted(cycles[c])
        /\ Len(registry) = 3
        /\ \A k \in 1..3 : Eligible(registry[k])
        /\ Len(cycles[c].hist) = 3
        /\ cycles[c].hist[1].outcome = "data"
        /\ cycles[c].hist[2].outcome = "throw"
        /\ cycles[c].hist[3].outcome = "data"
        /\ cycles[c].successCount = 2
        /\ cycles[c].failureCount = 1
        /\ cycles[c].skipCount = 0

\* The trigger times (resets_at + 5 minutes) after now of the 5-hour and
\* 7-day windows in the stored snapshots of the active accounts.
TriggerTimes(now) ==
    LET active == {a \in 1..Len(registry) : registry[a].isActive /\ ~store[a].isNull}
        windows == UNION {{store[a].five_hour, store[a].seven_day} : a \in active}
        known == {w \in windows : w.present /\ w.resets_at # 0}
    IN  {t \in {w.resets_at + 5 * Minute : w \in known} : t > now}

SetMin(S) == CHOOSE m \in S : \A x \in S : m <= x

\* The reference value of nextInterval().
ReferenceInterval(now) ==
    IF TriggerTimes(now) = {} THEN BASE_INTERVAL
    ELSE LET m == SetMin(TriggerTimes(now))
         IN  IF m - now < BASE_INTERVAL
             THEN (IF m - now >= Minute THEN m - now ELSE Minute)
             ELSE BASE_INTERVAL

PlanSucceeded(cy) == cy.pc = "arm" /\ ~cy.planFailed

\* C8: when no read fails, nextInterval() returns the reference value for
\* the stored snapshots and the time it read.
C8_NextIntervalIsReference ==
    \A c \in CycleIds :
        PlanSucceeded(cycles[c]) =>
            cycles[c].nextInterval = ReferenceInterval(cycles[c].now)

\* Two future trigger times, the earlier one less than BASE_INTERVAL and more
\* than a minute ahead: it is the interval returned.
C8_Witness ==
    \E c \in CycleIds :
        /\ PlanSucceeded(cycles[c])
        /\ Cardinality(TriggerTimes(cycles[c].now)) >= 2
        /\ cycles[c].nextInterval = SetMin(TriggerTimes(cycles[c].now)) - cycles[c].now
        /\ cycles[c].nextInterval > Minute
        /\ cycles[c].nextInterval < BASE_INTERVAL

\* C9: the planner always returns to runAndScheduleNext, never throws to it,
\* and returns BASE_INTERVAL when its listing or a snapshot read failed.
C9_PlannerNeverThrows ==
    \A c \in CycleIds :
        cycles[c].pc = "arm" =>
            /\ ~cycles[c].threw
            /\ cycles[c].planFailed => cycles[c].nextInterval = BASE_INTERVAL

\* A snapshot read failed after an entry was collected that would have
\* given a shorter interval: BASE_INTERVAL is returned.
C9_Witness ==
    \E c \in CycleIds :
        /\ cycles[c].pc = "arm"
        /\ cycles[c].planFailed
        /\ ~cycles[c].threw
        /\ cycles[c].nextInterval = BASE_INTERVAL
        /\ \E k \in 1..Len(cycles[c].resetTimes) :
             cycles[c].resetTimes[k].resetTime - cycles[c].now < BASE_INTERVAL

ProbePcs == {"token", "proxy", "request", "settle", "refetch", "put2"}

C11_AtMostOneCycle == Cardinality(Active) <= 1

\* The cycle awaits a call to the provider for its account cycles[c].i: the
\* usage fetch, the probe request or the probe's re-fetch.
ProviderPcs == {"fetch", "request", "refetch"}
Calling(c) == cycles[c].pc \in ProviderPcs

\* C12: provider calls for different accounts are never in flight at the
\* same time, and a pass issues the first call for a further account only
\* when its 1 second wait after the previous account has ended.
C12_ProviderCallsSpaced ==
    /\ [](\A c, d \in CycleIds :
            (c # d /\ Calling(c) /\ Calling(d)) => cycles[c].i = cycles[d].i)
    /\ [][\A c \in CycleIds :
            (/\ cycles'[c].pc = "fetch"
             /\ Len(cycles'[c].fetched) > Len(cycles[c].fetched)
             /\ Len(cycles[c].fetched) >= 1)
            => (cycles[c].pc = "delay" /\ cycles[c].sleep = ACCOUNT_DELAY)]_vars

Min(a, b) == IF a <= b THEN a ELSE b

\* How many accounts of the list the pass has taken up so far.
Reached(cy) == Min(cy.i, Len(registry))

\* The accounts whose turn begins in this step of cycle c.
TakenUp(c) == {k \in 1..Len(registry) : Reached(cycles[c]) < k /\ k <= Reached(cycles'[c])}

\* C13: after each account, skipped or not, the pass waits out the 1 second
\* delay before it takes up the next one: no step takes up two accounts, and
\* an account after the first is taken up only as that delay ends.
C13_DelayAfterEveryAccount ==
    [][\A c \in CycleIds :
         /\ Cardinality(TakenUp(c)) <= 1
         /\ (TakenUp(c) # {} /\ Reached(cycles[c]) >= 1) =>
               (cycles[c].pc = "delay" /\ cycles[c].sleep = ACCOUNT_DELAY)]_vars

\* The account is one the claim says is skipped.
Untracked(account) ==
    \/ ~account.isActive
    \/ ~({"user:profile", "user:inference"} \subseteq account.scopes)

\* The accounts of the list, in order, that the claim says are not skipped.
RECURSIVE TrackedFrom(_)
TrackedFrom(k) ==
    IF k > Len(registry) THEN <<>>
    ELSE IF Untracked(registry[k]) THEN TrackedFrom(k + 1)
    ELSE <<k>> \o TrackedFrom(k + 1)

\* C14: an account is skipped exactly when it is inactive or lacks one of
\* the two scopes; a skipped account adds one to skipped only and gets no
\* usage fetch, no snapshot write and no probe; every other account gets
\* exactly one usage fetch by the pass.
C14_SkippedIffUntracked ==
    \A c \in CycleIds :
        LET cy == cycles[c]
        IN  /\ \A k \in 1..Len(cy.hist) :
                 cy.hist[k].outcome = "skipped" <=> Untracked(registry[cy.hist[k].account])
            /\ cy.skipCount = Cardinality(Turns(cy, {"skipped"}))
            /\ cy.successCount + cy.failureCount + cy.skipCount <= Len(cy.hist)
            /\ \A k \in 1..Len(cy.fetched) : ~Untracked(registry[cy.fetched[k]])
            /\ cy.pc \in (PassPcs \ {"list"}) =>
                  /\ ~Untracked(registry[cy.i])
                  /\ cy.fetched = SubSeq(TrackedFrom(1), 1, Len(cy.fetched))
                  /\ cy.fetched[Len(cy.fetched)] = cy.i
            /\ \A k \in 1..Len(registry) : Untracked(registry[k]) => store[k] = Null
            /\ PassCompleted(cy) =>
                  /\ cy.fetched = TrackedFrom(1)
                  /\ cy.skipCount = Len(registry) - Len(cy.fetched)

\* A pass over an inactive account, an active one with the profile scope
\* only and a tracked one has ended: skipped is 2 and only the third account
\* was fetched, once.
C14_Witness ==
    \E c \in CycleIds :
        /\ PassCompleted(cycles[c])
        /\ Len(registry) = 3
        /\ ~registry[1].isActive
        /\ registry[2].isActive /\ registry[2].scopes = {"user:profile"}
        /\ ~Untracked(registry[3])
        /\ cycles[c].skipCount = 2
        /\ cycles[c].fetched = <<3>>
        /\ store[3] # Null

\* Cycle c's write of usage for its account is the change of the store in
\* this step: the awaited updateClaudeUsageSnapshot returns.
Writes(c, awaited, usage) ==
    /\ cycles[c].pc = awaited
    /\ ~usage.isNull
    /\ cycles[c].fetched # <<>>
    /\ cycles[c].fetched[Len(cycles[c].fetched)] = cycles[c].i
    /\ store' = [store EXCEPT ![cycles[c].i] = usage]

\* The probe of cycle c returns false in this step.
ProbeFails(c) ==
    /\ cycles[c].pc \in ProbePcs
    /\ cycles'[c].cw.returned
    /\ ~cycles'[c].cw.probeRet

\* C15: the stored snapshot of an account changes only when a usage fetch
\* for that account has returned data, and to that data (the pass's fetch or
\* the probe's re-fetch); a fetch that throws or returns nothing, and a probe
\* that fails, leave the store as it is.
C15_WrittenOnlyAfterFetchedData ==
    [][/\ store' # store =>
            \E c \in CycleIds :
                \/ Writes(c, "put", cycles[c].usageData)
                \/ Writes(c, "put2", cycles[c].newUsage)
       /\ \A c \in CycleIds :
            (cycles[c].pc = "fetch" /\ cycles'[c].pc # "put") => store' = store
       /\ \A c \in CycleIds : ProbeFails(c) => store' = store]_vars

\* The fetch for account 1 threw and left nothing stored; then a probe has
\* confirmed the window of account 2 and the store holds what its re-fetch
\* returned.
C15_Witness ==
    \E c \in CycleIds :
        /\ cycles[c].i = 2
        /\ cycles[c].cw.probeRet
        /\ Populated(cycles[c].newUsage)
        /\ store[2] = cycles[c].newUsage
        /\ cycles[c].usageData = Usage(Dormant, NoWindow)
        /\ Len(cycles[c].hist) = 2
        /\ cycles[c].hist[1].outcome = "throw"
        /\ store[1] = Null

\* The probe of cy's account has returned.
Probed(cy) == cy.cw.probes = 1 /\ cy.cw.returned

\* On a status other than 200 or an exception the probe returned false; it
\* made no re-fetch after a failed request, and stored nothing.
ProbeFailureIsQuiet(cy) ==
    /\ (cy.cw.status # 200 \/ cy.cw.caught) =>
          /\ ~cy.cw.probeRet
          /\ cy.cw.writes = 0
          /\ store[cy.i] = cy.usageData
    /\ cy.cw.status # 200 => (cy.cw.refetches = 0 /\ cy.newUsage = Null)
    /\ cy.cw.refetches <= 1
    /\ cy.cw.ret = cy.cw.probeRet
    /\ cy.pc = "delay"

\* C16 as claimed: the probe returns true exactly when the request returned
\* status 200 and the re-fetched five-hour window has resets_at populated,
\* the refreshed snapshot then being stored; on another status or an
\* exception it returns false, re-fetches nothing more, stores nothing and
\* does not throw.
C16_TrueIffWindowPopulated ==
    \A c \in CycleIds :
        LET cy == cycles[c]
        IN  Probed(cy) =>
               /\ cy.cw.probeRet <=> (cy.cw.status = 200 /\ Populated(cy.newUsage))
               /\ cy.cw.probeRet => (cy.cw.writes = 1 /\ store[cy.i] = cy.newUsage)
               /\ ProbeFailureIsQuiet(cy)

\* C16 as amended: the probe returns true exactly when the request returned
\* status 200 with a body that parses, the re-fetched five-hour window has
\* resets_at populated and the write of the refreshed snapshot succeeded;
\* on another status or an exception (the failed write included) it returns
\* false, re-fetches nothing more, stores nothing and does not throw.
C16_TrueIffRefreshedSnapshotStored ==
    \A c \in CycleIds :
        LET cy == cycles[c]
        IN  Probed(cy) =>
               /\ cy.cw.probeRet <=>
                     (cy.cw.status = 200 /\ Populated(cy.newUsage) /\ ~cy.cw.caught)
               /\ cy.cw.probeRet => (cy.cw.writes = 1 /\ store[cy.i] = cy.newUsage)
               /\ ProbeFailureIsQuiet(cy)

\* The request returned 200 and the re-fetch a populated window, but the
\* write of the refreshed snapshot threw: the probe has returned false and
\* the store still holds the dormant snapshot.
C16_Witness ==
    \E c \in CycleIds :
        /\ Probed(cycles[c])
        /\ cycles[c].cw.status = 200
        /\ Populated(cycles[c].newUsage)
        /\ cycles[c].cw.caught
        /\ ~cycles[c].cw.probeRet
        /\ store[cycles[c].i] = Usage(Dormant, NoWindow)

\* C17: when getValidAccessToken gives no token (or throws), the probe
\* returns false with no egress path obtained, no probe request, no
\* re-fetch and no snapshot write.
C17_NoTokenNoNetwork ==
    \A c \in CycleIds :
        LET cy == cycles[c]
        IN  cy.cw.token \in {"absent", "threw"} =>
               /\ Probed(cy)
               /\ ~cy.cw.probeRet
               /\ ~cy.cw.proxied
               /\ cy.cw.net = 0
               /\ cy.cw.status = 0
               /\ cy.cw.refetches = 0
               /\ cy.cw.writes = 0
               /\ store[cy.i] = cy.usageData
               /\ cy.pc \notin ProbePcs

\* getValidAccessToken returned no token for the dormant account: the probe
\* has returned false and the account's turn ends as a success with no
\* initialization counted.
C17_Witness ==
    \E c \in CycleIds :
        /\ cycles[c].cw.token = "absent"
        /\ Probed(cycles[c])
        /\ ~cycles[c].cw.caught
        /\ cycles[c].pc = "delay"
        /\ cycles[c].successCount = 1
        /\ cycles[c].initCount = 0

\* C18: an Update Pass begins only while isRunning is true: no cycle starts
\* after stop() has returned and before the next start().
C18_PassBeginsOnlyWhileRunning ==
    [][\A c \in CycleIds :
         (cycles[c].pc = "idle" /\ cycles'[c].pc = "list") => isRunning']_vars

\* C19: while isRunning is false the stored handle monitorTimeout is null;
\* a handle is stored only at a re-arm step that found isRunning true, and
\* stop() leaves the handle null.
C19_StoppedHasNoHandle ==
    /\ [](~isRunning => monitorTimeout = 0)
    /\ [][monitorTimeout' \notin {0, monitorTimeout} =>
             (isRunning /\ \E c \in CycleIds : Rearms(c))]_vars
    /\ [][(isRunning /\ ~isRunning') => monitorTimeout' = 0]_vars

\* stop() was called with a cycle in flight, and that cycle has come to its
\* re-arm step with the service stopped and no handle stored.
C19_Witness ==
    /\ ~isRunning
    /\ lastOp = "stop"
    /\ monitorTimeout = 0
    /\ \E c \in CycleIds : cycles[c].pc = "arm" /\ cycles[c].stopSeen

\* C20: every timer the scheduler arms, and every delay a cycle is about to
\* arm with, is at least 1 minute and at most 20 minutes, whatever the
\* snapshots hold and whichever reads fail.
C20_DelayWithinBounds ==
    /\ \A t \in timers : Minute <= t.delay /\ t.delay <= 20 * Minute
    /\ \A c \in CycleIds :
         cycles[c].pc = "arm" =>
            (Minute <= ArmDelay(cycles[c]) /\ ArmDelay(cycles[c]) <= 20 * Minute)

\* The only account's five-hour window triggers 30 seconds after T0 and its
\* seven-day window in 6 days: the timer armed has the floor of one minute.
C20_Witness ==
    /\ Len(registry) = 1
    /\ registry[1].isActive
    /\ store[1] = Usage(Win(T0 - 5 * Minute + 30000), Win(T0 + 6 * Day))
    /\ \E t \in timers : t.delay = Minute

====
